---- MODULE Spec2Model ----
(***************************************************************************)
(* Le Mixologue Augmente: the image-generation fallback chain              *)
(* (generate_image, STABILITY_AI_INTEGRATION section of the documentation) *)
(* and the prompt construction of the Stable Diffusion guide; the React    *)
(* components that show a cocktail, list the history and take the request  *)
(* of the user; the scripts docker-start.sh and docker-stop.sh.            *)
(*                                                                         *)
(* Time is counted in units of 10 seconds.                                 *)
(***************************************************************************)
EXTENDS Integers, Sequences, FiniteSets, TLC

(* ---------------------------------------------------------------------- *)
(* Bounds                                                                  *)
(* ---------------------------------------------------------------------- *)
NumRequests == 2

\* at most this many requests of one component of the browser are
\* waiting for their response at the same time
MaxInFlight == 2

\* the server stores at most this many cocktails: one more than a page of
\* the history holds
MaxCocktails == 8

\* the user deletes none but the oldest cocktails, those with the first ids
MaxDeletions == 2

Req == 1..NumRequests

(* ---------------------------------------------------------------------- *)
(* Values                                                                  *)
(* ---------------------------------------------------------------------- *)
\* Python's None, the falsy value a service returns when it produced no image
None == "None"

\* line 211: return "/default.webp"
DefaultImage == "/default.webp"

\* the two image services, in the order generate_image consults them
Adapters == <<"stability", "dynapictures">>

NumAdapters == Len(Adapters)

\* "Cas d'Echec Geres": the ways a service that was called fails
FailureKinds == {"network_error", "quota_exceeded", "service_unavailable"}

\* asset references a service returns on success ("/cocktail_123.jpeg")
StabilityRefs == {"/cocktail_123.jpeg"}

DynaPicturesRefs == {"/cocktail_123.png"}

\* the per-adapter timeout (30 seconds), in units of 10 seconds
PerAdapterTimeout == 3

\* "Temps de generation estimes", in units of 10 seconds:
\* GPU CUDA 30-60 seconds, CPU 5-15 minutes
LocalGpuMin == 3

LocalGpuMax == 6

LocalCpuMin == 30

LocalCpuMax == 90

\* what a call of generate_cocktail_image answers, and after how long:
\* a reference or a failure
Response(refs, kinds, times) ==
    [kind : {"success"}, ref : refs, time : times]
        \cup [kind : kinds, ref : {None}, time : times]

\* every kind of answer, each service answering in its usual time
StabilityAnswers == Response(StabilityRefs, FailureKinds, {1})

DynaPicturesAnswers == Response(DynaPicturesRefs, FailureKinds, {LocalGpuMin})

\* answers that differ in the time they take: Stability AI within its
\* timeout, the local Stable Diffusion pipeline on GPU or on CPU
StabilityTimedAnswers ==
    Response(StabilityRefs, {"network_error"}, {1, PerAdapterTimeout})

DynaPicturesTimedAnswers ==
    Response(DynaPicturesRefs, {"network_error"},
             {LocalGpuMin, LocalGpuMax, LocalCpuMin, LocalCpuMax})

\* answers that differ in success only
StabilityPlainAnswers == Response(StabilityRefs, {"network_error"}, {1})

DynaPicturesPlainAnswers ==
    Response(DynaPicturesRefs, {"network_error"}, {LocalGpuMin})

\* the value generate_cocktail_image returns to generate_image
ResultOf(resp) == IF resp.kind = "success" THEN resp.ref ELSE None

\* Python truthiness of `result` in `if result:`
Truthy(result) == result # None /\ result # ""

(* ---------------------------------------------------------------------- *)
(* Text: a text is a sequence of characters, a prompt a sequence of pieces *)
(* ---------------------------------------------------------------------- *)
UpperLetters ==
    <<"A", "B", "C", "D", "E", "F", "G", "H", "I", "J", "K", "L", "M",
      "N", "O", "P", "Q", "R", "S", "T", "U", "V", "W", "X", "Y", "Z">>

LowerLetters ==
    <<"a", "b", "c", "d", "e", "f", "g", "h", "i", "j", "k", "l", "m",
      "n", "o", "p", "q", "r", "s", "t", "u", "v", "w", "x", "y", "z">>

\* str.lower() on one character
LowerChar(ch) ==
    IF \E i \in 1..Len(UpperLetters) : UpperLetters[i] = ch
    THEN LowerLetters[CHOOSE i \in 1..Len(UpperLetters) : UpperLetters[i] = ch]
    ELSE ch

\* str.lower()
Lower(text) == [i \in 1..Len(text) |-> LowerChar(text[i])]

\* Python's `key in text`
Contains(text, key) ==
    \E i \in 1..(Len(text) - Len(key) + 1) :
        SubSeq(text, i, i + Len(key) - 1) = key

\* color_map, in the order the dictionary is written
ColorMap ==
    << [key |-> <<"r", "h", "u", "m">>, value |-> "golden amber"],
       [key |-> <<"w", "h", "i", "s", "k", "y">>, value |-> "deep amber"],
       [key |-> <<"v", "o", "d", "k", "a">>, value |-> "crystal clear"],
       [key |-> <<"g", "i", "n">>, value |-> "clear with botanical hints"],
       [key |-> <<"t", "e", "q", "u", "i", "l", "a">>, value |-> "pale gold"],
       [key |-> <<"g", "r", "e", "n", "a", "d", "i", "n", "e">>,
        value |-> "ruby red gradient"] >>

\* style_keywords, in the order the dictionary is written
StyleKeywords ==
    << [key |-> <<"t", "r", "o", "p", "i", "c", "a", "l">>,
        value |-> "tropical paradise setting with palm leaves"],
       [key |-> <<"s", "u", "m", "m", "e", "r">>,
        value |-> "bright summer atmosphere"],
       [key |-> <<"w", "i", "n", "t", "e", "r">>,
        value |-> "cozy winter ambiance"],
       [key |-> <<"e", "l", "e", "g", "a", "n", "t">>,
        value |-> "sophisticated upscale bar"] >>

\* the professional qualifiers that close a constructed prompt
Qualifiers ==
    <<"professional photography", "high quality", "detailed", "8k resolution",
      "studio lighting", "elegant presentation", "premium cocktail",
      "sophisticated bar setting", "crystal clear glass">>

\* the descriptors of the entries whose key occurs in the text as written
DescriptorsCaseSensitive(table, text) ==
    LET hits == SelectSeq(table, LAMBDA e : Contains(text, e.key))
    IN  [i \in 1..Len(hits) |-> hits[i].value]

\* the descriptors of the table entries whose key occurs in the text
Descriptors(table, text) ==
    LET hits == SelectSeq(table, LAMBDA e : Contains(Lower(text), e.key))
    IN  [i \in 1..Len(hits) |-> hits[i].value]

RECURSIVE IngredientColors(_, _)
\* the colour descriptors of the ingredients, ingredient by ingredient
IngredientColors(table, ingredients) ==
    IF ingredients = << >>
    THEN << >>
    ELSE Descriptors(table, Head(ingredients))
             \o IngredientColors(table, Tail(ingredients))

\* the cocktails the requests are about
RhumBlanc == <<"4", " ", "c", "l", " ", "r", "h", "u", "m", " ", "b", "l", "a", "n", "c">>

JusAnanas == <<"j", "u", "s", " ", "d", "'", "a", "n", "a", "n", "a", "s">>

VodkaUpper == <<"2", " ", "c", "l", " ", "V", "O", "D", "K", "A">>

GrenadineCap == <<"G", "r", "e", "n", "a", "d", "i", "n", "e">>

EauGazeuse == <<"e", "a", "u", " ", "g", "a", "z", "e", "u", "s", "e">>

TropicalSunset ==
    <<"t", "r", "o", "p", "i", "c", "a", "l", " ", "s", "u", "n", "s", "e", "t">>

ElegantWinter ==
    <<"E", "l", "e", "g", "a", "n", "t", " ", "W", "i", "n", "t", "e", "r",
      " ", "d", "r", "i", "n", "k">>

Simple == <<"s", "i", "m", "p", "l", "e">>

MojitoTropical ==
    [name |-> "Mojito Tropical", ingredients |-> <<RhumBlanc, JusAnanas>>,
     description |-> TropicalSunset, image_prompt |-> None]

Cocktails ==
    { MojitoTropical,
      [MojitoTropical EXCEPT !.image_prompt = "Cocktail tropical dans un verre hurricane"],
      [name |-> "Reine des Neiges", ingredients |-> <<VodkaUpper, GrenadineCap>>,
       description |-> ElegantWinter, image_prompt |-> None],
      [name |-> "Reine des Neiges", ingredients |-> <<VodkaUpper, GrenadineCap>>,
       description |-> ElegantWinter, image_prompt |-> "verre givre, lumiere bleue"],
      [name |-> "Perle", ingredients |-> <<EauGazeuse>>,
       description |-> Simple, image_prompt |-> None] }

(* ---------------------------------------------------------------------- *)
(* State                                                                   *)
(* ---------------------------------------------------------------------- *)
VARIABLES
    stability_service,      \* self.stability_service is not None
    stability_api_key,      \* STABILITY_API_KEY is defined
    dynapictures_service,   \* self.dynapictures_service is not None
    color_map,              \* the ingredient -> colour dictionary
    style_keywords,         \* the keyword -> style dictionary
    req,                    \* one record per generate_image request
    sh,                     \* the run of docker-start.sh or docker-stop.sh
    gen,                    \* the CocktailGenerator component
    hist,                   \* the CocktailHistory component
    db,                     \* the ids of the cocktails the server stores
    detail,                 \* the CocktailDetail component
    record,                 \* the stored cocktail the detail view shows
    posts                   \* the generate-image requests of the detail view

vars == <<stability_service, stability_api_key, dynapictures_service,
          color_map, style_keywords, req,
          sh, gen, hist, db, detail, record, posts>>

\* the state of the scripts and of the browser
scripts == <<sh>>

generator == <<gen>>

history == <<hist, db>>

viewer == <<detail, record, posts>>

config == <<stability_service, stability_api_key, dynapictures_service,
            color_map, style_keywords>>

\* StabilityAIService.is_available()
is_available == stability_api_key

NoCalls == [a \in {"stability", "dynapictures"} |-> 0]

\* a request that has not entered generate_image yet
NewRequest ==
    [pc        |-> "NotStarted",
     cocktail  |-> None,
     result    |-> None,
     prompt    |-> None,
     stability_prompt |-> None,
     log       |-> << >>,
     outbound  |-> NoCalls,
     elapsed   |-> 0]

\* the diagnostic log line of one adapter's outcome
Recorded(st, adapter, status, ref, time) ==
    [st EXCEPT !.log = Append(@, [adapter |-> adapter, status |-> status,
                                  ref |-> ref, time |-> time])]

\* no script is running
NoScript ==
    [script |-> None, arg |-> None, docker |-> FALSE, compose_v1 |-> FALSE,
     compose_v2 |-> FALSE, daemon |-> FALSE, env_file |-> FALSE,
     env_docker |-> FALSE, keys |-> None, volumes |-> TRUE, pc |-> None,
     mode |-> None, next |-> 0, cmds |-> << >>, warnings |-> {},
     status |-> None]

\* CocktailGenerator after its useState calls
NewGenerator ==
    [prompt |-> << >>, isLoading |-> FALSE, generatedCocktail |-> << >>,
     error |-> "", pending |-> << >>, sent |-> {}, event |-> "mounted"]

\* const [perPage] = useState(6)
PerPage == 6

\* pagination is null until a list response was received
NoPagination ==
    [page |-> 0, per_page |-> 0, total |-> 0, pages |-> 0,
     has_next |-> FALSE, has_prev |-> FALSE]

\* CocktailHistory after its useState calls
NewHistory ==
    [cocktails |-> << >>, pagination |-> NoPagination, currentPage |-> 1,
     isLoading |-> FALSE, error |-> "", perPage |-> PerPage, deletingId |-> 0,
     fetches |-> << >>, deletes |-> << >>, sent |-> {}, latest |-> 0]

\* no detail view is mounted; a mounted one starts from its useState calls
NoDetail ==
    [shown |-> FALSE, component |-> None, source |-> None,
     cocktail |-> [id |-> 0, image_prompt |-> None, image_path |-> None],
     generatedImage |-> None, isGeneratingImage |-> FALSE,
     imageError |-> None, showDefaultImage |-> FALSE, request |-> 0]

\* no cocktail is under study
NoRecord ==
    [id |-> 0, data |-> MojitoTropical, image_path |-> None, fresh |-> FALSE]

\* no generate-image request was posted
NoPost ==
    [state |-> "none", component |-> None, source |-> None,
     image_path |-> None, outcome |-> None]

\* the browser and the scripts at rest
ScriptsIdle == sh = NoScript

GeneratorIdle == gen = NewGenerator

HistoryIdle == hist = NewHistory /\ db = {}

ViewerIdle ==
    /\ detail = NoDetail
    /\ record = NoRecord
    /\ posts = [r \in Req |-> NoPost]

(* ---------------------------------------------------------------------- *)
(* Construction de prompts                                                 *)
(* ---------------------------------------------------------------------- *)
\* a construction whose colour list is shared by all calls and keeps the
\* colours of the prompts built before
ConstructedPromptAccumulating(cocktail) ==
    LET built  == SelectSeq([q \in Req |-> req[q]], LAMBDA st : st.prompt # None)
        before == [i \in 1..Len(built) |-> Head(built[i].cocktail.ingredients)]
        colors == IngredientColors(color_map, before \o cocktail.ingredients)
        styles == Descriptors(style_keywords, cocktail.description)
    IN  <<"A beautiful", cocktail.name, "cocktail in an elegant glass">>
            \o (IF colors = << >> THEN << >> ELSE <<"with">> \o colors \o <<"tones">>)
            \o styles
            \o Qualifiers

\* 2. the prompt constructed from name, ingredients, description, qualifiers
ConstructedPrompt(cocktail) ==
    LET colors == IngredientColors(color_map, cocktail.ingredients)
        styles == Descriptors(style_keywords, cocktail.description)
    IN  <<"A beautiful", cocktail.name, "cocktail in an elegant glass">>
            \o (IF colors = << >> THEN << >> ELSE <<"with">> \o colors \o <<"tones">>)
            \o styles
            \o Qualifiers

\* a builder that closes the custom prompt with the qualifiers too
BuildPromptQualified(cocktail) ==
    IF cocktail.image_prompt # None
    THEN <<cocktail.image_prompt>> \o Qualifiers
    ELSE ConstructedPrompt(cocktail)

\* 1. the custom prompt if image_prompt is given, 2. else the constructed one
BuildPrompt(cocktail) ==
    IF cocktail.image_prompt # None
    THEN <<cocktail.image_prompt>>
    ELSE ConstructedPrompt(cocktail)

\* the closing words of the prompt Stability AI is given
StabilityQualifiers ==
    <<"professional lighting", "high-end bar setting", "4K quality",
      "food photography style">>

\* the prompt the Stability AI service generates from cocktail_data: the
\* name and the ingredients in its own template (the cocktails here carry
\* neither a glass nor garnishes)
StabilityPrompt(cocktail) ==
    <<"A professional cocktail photography of", cocktail.name>>
        \o cocktail.ingredients
        \o StabilityQualifiers

(* ---------------------------------------------------------------------- *)
(* generate_image, cut at its two blocking service calls                   *)
(* ---------------------------------------------------------------------- *)
\* a chain whose last line is missing: the function returns None
ReturnDefaultMissing(st) ==
    [st EXCEPT !.result = None, !.pc = "ExhaustedUsingDefault"]

\* line 211
ReturnDefault(st) ==
    [st EXCEPT !.result = DefaultImage, !.pc = "ExhaustedUsingDefault"]

\* a chain that drops the reference a service returned
ReturnResultDropped(st, adapter, result, time) ==
    [Recorded(st, adapter, "success", result, time) EXCEPT
        !.result = DefaultImage, !.pc = "Succeeded"]

\* lines 202 and 208: return result
ReturnResult(st, adapter, result, time) ==
    [Recorded(st, adapter, "success", result, time) EXCEPT !.result = result, !.pc = "Succeeded"]

\* line 205: if self.dynapictures_service
DynaPicturesUsable == dynapictures_service

\* a call that hands the local service the prompt Stability AI was given,
\* when there is one
CallDynaPicturesReusing(st) ==
    [st EXCEPT !.pc = "TryingDynaPictures",
               !.prompt = IF st.outbound["stability"] > 0
                          THEN st.stability_prompt
                          ELSE BuildPrompt(st.cocktail),
               !.outbound["dynapictures"] = @ + 1]

\* line 206: the call of dynapictures_service.generate_cocktail_image, which
\* builds its prompt and starts the local pipeline
CallDynaPictures(st) ==
    [st EXCEPT !.pc = "TryingDynaPictures",
               !.prompt = BuildPrompt(st.cocktail),
               !.outbound["dynapictures"] = @ + 1]

\* lines 204-211
TryDynaPictures(st) ==
    IF DynaPicturesUsable
    THEN CallDynaPictures(st)
    ELSE ReturnDefault(Recorded(st, "dynapictures", "unavailable", None, 0))

\* a chain that starts over once after the last service failed
AfterDynaPicturesSecondPass(st, resp) ==
    LET now == [st EXCEPT !.elapsed = @ + resp.time]
    IN  IF Truthy(ResultOf(resp))
        THEN ReturnResult(now, "dynapictures", ResultOf(resp), resp.time)
        ELSE IF stability_service /\ stability_api_key /\ st.outbound["dynapictures"] < 2
             THEN [now EXCEPT !.pc = "TryingStability"]
             ELSE ReturnDefault(Recorded(now, "dynapictures", resp.kind, None, resp.time))

\* lines 207-211, once the DynaPictures call has answered
AfterDynaPictures(st, resp) ==
    LET now == [st EXCEPT !.elapsed = @ + resp.time]
    IN  IF Truthy(ResultOf(resp))
        THEN ReturnResult(now, "dynapictures", ResultOf(resp), resp.time)
        ELSE ReturnDefault(Recorded(now, "dynapictures", resp.kind, None, resp.time))

\* a chain that calls Stability AI without asking is_available()
StabilityUsableUnchecked == stability_service

\* line 199: if self.stability_service and self.stability_service.is_available()
StabilityUsable == stability_service /\ is_available

\* line 200: the call of stability_service.generate_cocktail_image, which
\* builds its prompt and posts it to the SD3 endpoint
CallStability(st) ==
    [st EXCEPT !.pc = "TryingStability",
               !.stability_prompt = StabilityPrompt(st.cocktail),
               !.outbound["stability"] = @ + 1]

\* a chain that consults the local service first
generate_image_local_first(st) ==
    TryDynaPictures(st)

\* lines 198-211, from the entry of generate_image
generate_image(st) ==
    IF StabilityUsable
    THEN CallStability(st)
    ELSE TryDynaPictures(Recorded(st, "stability", "unavailable", None, 0))

\* a chain that gives up on an exceeded quota instead of falling back
AfterStabilityQuotaFatal(st, resp) ==
    LET now == [st EXCEPT !.elapsed = @ + resp.time]
    IN  IF Truthy(ResultOf(resp))
        THEN ReturnResult(now, "stability", ResultOf(resp), resp.time)
        ELSE IF resp.kind = "quota_exceeded"
             THEN ReturnDefault(Recorded(now, "stability", resp.kind, None, resp.time))
             ELSE TryDynaPictures(Recorded(now, "stability", resp.kind, None, resp.time))

\* a chain that calls Stability AI a second time after a failure
AfterStabilityRetry(st, resp) ==
    LET now == [st EXCEPT !.elapsed = @ + resp.time]
    IN  IF Truthy(ResultOf(resp))
        THEN ReturnResult(now, "stability", ResultOf(resp), resp.time)
        ELSE IF st.outbound["stability"] < 2
             THEN CallStability(now)
             ELSE TryDynaPictures(Recorded(now, "stability", resp.kind, None, resp.time))

\* a chain that keeps the last generated reference on the service and
\* hands it to whichever request fails next
AfterStabilityShared(st, resp) ==
    LET now == [st EXCEPT !.elapsed = @ + resp.time]
    IN  IF Truthy(ResultOf(resp))
        THEN ReturnResult(now, "stability", ResultOf(resp), resp.time)
        ELSE IF \E q \in Req : req[q].pc = "Succeeded"
             THEN [Recorded(now, "stability", resp.kind, None, resp.time) EXCEPT
                      !.result = (CHOOSE ref \in {req[q].result : q \in {q \in Req : req[q].pc = "Succeeded"}} : TRUE),
                      !.pc = "Succeeded"]
             ELSE TryDynaPictures(Recorded(now, "stability", resp.kind, None, resp.time))

\* lines 201-211, once the Stability AI call has answered
AfterStability(st, resp) ==
    LET now == [st EXCEPT !.elapsed = @ + resp.time]
    IN  IF Truthy(ResultOf(resp))
        THEN ReturnResult(now, "stability", ResultOf(resp), resp.time)
        ELSE TryDynaPictures(Recorded(now, "stability", resp.kind, None, resp.time))

(* ---------------------------------------------------------------------- *)
(* Actions                                                                 *)
(* ---------------------------------------------------------------------- *)
\* the services are constructed once, when the server starts
Init ==
    /\ stability_service \in BOOLEAN
    /\ stability_api_key \in BOOLEAN
    /\ dynapictures_service \in BOOLEAN
    /\ color_map = ColorMap
    /\ style_keywords = StyleKeywords
    /\ req = [r \in Req |-> NewRequest]
    /\ ScriptsIdle
    /\ GeneratorIdle
    /\ HistoryIdle
    /\ ViewerIdle

\* request r, the r-th to arrive, enters generate_image with its
\* cocktail_data and runs to its first service call
Start(r, cocktails) ==
    /\ req[r].pc = "NotStarted"
    /\ r > 1 => req[r - 1].pc # "NotStarted"
    /\ \E c \in cocktails :
          req' = [req EXCEPT ![r] = generate_image([@ EXCEPT !.cocktail = c])]
    /\ UNCHANGED <<config, scripts, generator, history, viewer>>

\* the Stability AI call of request r answers
StabilityReturns(r, answers) ==
    /\ req[r].pc = "TryingStability"
    /\ \E resp \in answers :
          req' = [req EXCEPT ![r] = AfterStability(@, resp)]
    /\ UNCHANGED <<config, scripts, generator, history, viewer>>

\* the DynaPictures call of request r answers
DynaPicturesReturns(r, answers) ==
    /\ req[r].pc = "TryingDynaPictures"
    /\ \E resp \in answers :
          req' = [req EXCEPT ![r] = AfterDynaPictures(@, resp)]
    /\ UNCHANGED <<config, scripts, generator, history, viewer>>

\* the fallback chain under every kind of answer
Next ==
    \/ \E r \in Req : Start(r, {MojitoTropical})
    \/ \E r \in Req : StabilityReturns(r, StabilityAnswers)
    \/ \E r \in Req : DynaPicturesReturns(r, DynaPicturesAnswers)

Spec == Init /\ [][Next]_vars

\* every service call answers: success, failure or timeout
FairSpec ==
    /\ Spec
    /\ \A r \in Req :
          /\ WF_vars(StabilityReturns(r, StabilityAnswers))
          /\ WF_vars(DynaPicturesReturns(r, DynaPicturesAnswers))

\* the fallback chain under answers of every duration
NextTime ==
    \/ \E r \in Req : Start(r, {MojitoTropical})
    \/ \E r \in Req : StabilityReturns(r, StabilityTimedAnswers)
    \/ \E r \in Req : DynaPicturesReturns(r, DynaPicturesTimedAnswers)

SpecTime == Init /\ [][NextTime]_vars

\* the fallback chain for every cocktail
NextPrompt ==
    \/ \E r \in Req : Start(r, Cocktails)
    \/ \E r \in Req : StabilityReturns(r, StabilityPlainAnswers)
    \/ \E r \in Req : DynaPicturesReturns(r, DynaPicturesPlainAnswers)

SpecPrompt == Init /\ [][NextPrompt]_vars

(* ---------------------------------------------------------------------- *)
(* Properties of the fallback chain                                        *)
(* ---------------------------------------------------------------------- *)
TerminalStates == {"Succeeded", "ExhaustedUsingDefault"}

Failed == FailureKinds \cup {"unavailable"}

\* C1: when adapter k is the first adapter that is available and succeeds,
\* generate_image returns exactly the reference adapter k answered, and the
\* adapters 1..k-1 were each consulted once, in order, and recorded as
\* unavailable or failed, with at most one call each.
C1_FirstSuccessWins ==
    \A r \in Req :
        \A k \in 1..Len(req[r].log) :
            req[r].log[k].status = "success" =>
                /\ k = Len(req[r].log)
                /\ req[r].pc = "Succeeded"
                /\ req[r].result = req[r].log[k].ref
                /\ req[r].result \in StabilityRefs \cup DynaPicturesRefs
                /\ \A i \in 1..k : req[r].log[i].adapter = Adapters[i]
                /\ \A i \in 1..(k - 1) : req[r].log[i].status \in Failed
                /\ \A i \in 1..k : req[r].outbound[Adapters[i]] <= 1

\* the second adapter succeeds after the first one was called and failed
C1_Witness ==
    \E r \in Req :
        /\ req[r].pc = "Succeeded"
        /\ Len(req[r].log) = 2
        /\ req[r].log[1].status \in FailureKinds
        /\ req[r].log[2].status = "success"
        /\ req[r].result = req[r].log[2].ref
        /\ req[r].result \in DynaPicturesRefs

\* C2: the adapters are tried strictly in priority order, Stability AI
\* before DynaPictures and the default image last: DynaPictures is tried
\* only after Stability AI failed or was unavailable, and nothing ranked
\* after the first successful adapter is invoked.
C2_PriorityOrder ==
    \A r \in Req :
        /\ \A i \in 1..Len(req[r].log) :
              /\ i <= NumAdapters
              /\ req[r].log[i].adapter = Adapters[i]
              /\ req[r].log[i].status = "success" =>
                    \A j \in (i + 1)..NumAdapters : req[r].outbound[Adapters[j]] = 0
        /\ req[r].pc = "TryingStability" =>
              /\ req[r].log = << >>
              /\ req[r].outbound["dynapictures"] = 0
        /\ req[r].outbound["dynapictures"] > 0 =>
              /\ Len(req[r].log) >= 1
              /\ req[r].log[1].adapter = "stability"
              /\ req[r].log[1].status \in Failed
        /\ req[r].pc = "TryingDynaPictures" => Len(req[r].log) = 1
        /\ req[r].result = DefaultImage =>
              /\ Len(req[r].log) = NumAdapters
              /\ \A i \in 1..NumAdapters : req[r].log[i].status \in Failed

\* DynaPictures is being tried after the Stability AI call failed
C2_Witness ==
    \E r \in Req :
        /\ req[r].pc = "TryingDynaPictures"
        /\ req[r].outbound["stability"] = 1
        /\ req[r].log[1].status \in FailureKinds

\* C3: when every adapter is unavailable or fails, also when no service is
\* configured at all, generate_image returns the default image and ends in
\* no other way.
C3_DefaultWhenAllFail ==
    \A r \in Req :
        /\ req[r].pc \in {"NotStarted", "TryingStability", "TryingDynaPictures"}
                             \cup TerminalStates
        /\ (/\ Len(req[r].log) = NumAdapters
            /\ \A i \in 1..NumAdapters : req[r].log[i].status \in Failed)
               => /\ req[r].pc = "ExhaustedUsingDefault"
                  /\ req[r].result = DefaultImage
        /\ (~stability_service /\ ~dynapictures_service /\ req[r].pc # "NotStarted")
               => /\ req[r].pc = "ExhaustedUsingDefault"
                  /\ req[r].result = DefaultImage

\* both services were called and both failed
C3_Witness ==
    \E r \in Req :
        /\ req[r].pc = "ExhaustedUsingDefault"
        /\ req[r].log[1].status \in FailureKinds
        /\ req[r].log[2].status \in FailureKinds
        /\ req[r].result = DefaultImage

\* a log with the kind of each failure erased
Erased(log) ==
    [i \in 1..Len(log) |->
        [adapter |-> log[i].adapter,
         ok      |-> log[i].status = "success",
         ref     |-> log[i].ref]]

\* C4: every kind of adapter failure (unavailable, network error, quota
\* exceeded, service unavailable) has the same effect: the next adapter is
\* tried, or the default image returned after the last one; no failure ends
\* the request in another way, and two requests whose adapters failed in
\* different ways but succeeded alike return the same value.
C4_FailuresAreUniform ==
    /\ \A r \in Req :
          /\ req[r].pc \in {"NotStarted", "TryingStability", "TryingDynaPictures"}
                               \cup TerminalStates
          /\ \A i \in 1..Len(req[r].log) :
                req[r].log[i].status \in Failed =>
                    IF i < NumAdapters
                    THEN \/ Len(req[r].log) > i
                         \/ /\ req[r].pc = "TryingDynaPictures"
                            /\ req[r].outbound[Adapters[i + 1]] = 1
                    ELSE /\ req[r].pc = "ExhaustedUsingDefault"
                         /\ req[r].result = DefaultImage
    /\ \A r1, r2 \in Req :
          (/\ req[r1].pc \in TerminalStates
           /\ req[r2].pc \in TerminalStates
           /\ Erased(req[r1].log) = Erased(req[r2].log))
              => /\ req[r1].result = req[r2].result
                 /\ req[r1].pc = req[r2].pc

\* two finished requests whose Stability AI calls failed in different ways
\* and that both got the DynaPictures image
C4_Witness ==
    \E r1, r2 \in Req :
        /\ req[r1].pc = "Succeeded"
        /\ req[r2].pc = "Succeeded"
        /\ req[r1].log[1].status = "quota_exceeded"
        /\ req[r2].log[1].status = "network_error"
        /\ req[r1].result = req[r2].result
        /\ req[r1].result \in DynaPicturesRefs

C6_AtMostOneCall ==
    \A r \in Req :
        /\ \A i \in 1..NumAdapters : req[r].outbound[Adapters[i]] <= 1
        /\ Len(req[r].log) <= NumAdapters
        /\ \A i, j \in 1..Len(req[r].log) :
              req[r].log[i].adapter = req[r].log[j].adapter => i = j

\* a finished request in which both services were called, once each
C6_Witness ==
    \E r \in Req :
        /\ req[r].pc \in TerminalStates
        /\ req[r].outbound["stability"] = 1
        /\ req[r].outbound["dynapictures"] = 1
        /\ req[r].log[2].status \in FailureKinds

\* the position of a request in NotStarted -> TryingAdapter[1] ->
\* TryingAdapter[2] -> terminal
Position(pc) ==
    CASE pc = "NotStarted" -> 0
      [] pc = "TryingStability" -> 1
      [] pc = "TryingDynaPictures" -> 2
      [] pc \in TerminalStates -> NumAdapters + 1
      [] OTHER -> -1

\* C7: every request that entered generate_image eventually reaches
\* Succeeded or ExhaustedUsingDefault, given that each service call answers;
\* it moves only forward through TryingStability and TryingDynaPictures, and
\* a terminal state is never left.
C7_ReachesTerminalState ==
    /\ \A r \in Req :
          (req[r].pc # "NotStarted") ~> (req[r].pc \in TerminalStates)
    /\ [][\A r \in Req :
              /\ Position(req'[r].pc) >= 0
              /\ req'[r].pc # req[r].pc => Position(req'[r].pc) > Position(req[r].pc)
              /\ req[r].pc \in TerminalStates => req'[r] = req[r]]_vars

\* a request that went through both adapters and ended on the default image
C7_Witness ==
    \E r \in Req :
        /\ req[r].pc = "ExhaustedUsingDefault"
        /\ req[r].outbound["stability"] = 1
        /\ req[r].outbound["dynapictures"] = 1
        /\ Len(req[r].log) = NumAdapters

(* ---------------------------------------------------------------------- *)
(* Latency                                                                 *)
(* ---------------------------------------------------------------------- *)
\* the time the local Stable Diffusion pipeline took in a request
LocalTime(st) ==
    LET local == SelectSeq(st.log, LAMBDA e : e.adapter = "dynapictures")
    IN  IF local = << >> THEN 0 ELSE local[1].time

Called(r) == { a \in {"stability", "dynapictures"} : req[r].outbound[a] > 0 }

Matched(table, texts) ==
    { table[k].value : k \in { k \in 1..Len(table) :
          \E j \in 1..Len(texts) : Contains(Lower(texts[j]), table[k].key) } }

\* the pieces of a prompt
Pieces(prompt) == { prompt[i] : i \in 1..Len(prompt) }

Answers(log) ==
    LET called == SelectSeq(log, LAMBDA e : e.status # "unavailable")
    IN  [i \in 1..Len(called) |->
            [kind |-> called[i].status, ref |-> called[i].ref, time |-> called[i].time]]

RECURSIVE Replay(_, _)
\* a request that is given its answers one after the other, with no other
\* request in between
Replay(st, answers) ==
    IF answers = << >>
    THEN st
    ELSE IF st.pc = "TryingStability"
         THEN Replay(AfterStability(st, Head(answers)), Tail(answers))
         ELSE IF st.pc = "TryingDynaPictures"
              THEN Replay(AfterDynaPictures(st, Head(answers)), Tail(answers))
              ELSE st

\* generate_image run alone for the cocktail against the answers
RunAlone(cocktail, answers) ==
    Replay(generate_image([NewRequest EXCEPT !.cocktail = cocktail]), answers)

\* the reference a lone request returns for a log: that of its successful
\* entry, or the default image
AloneResult(log) ==
    IF \E k \in 1..Len(log) : log[k].status = "success"
    THEN log[CHOOSE k \in 1..Len(log) : log[k].status = "success"].ref
    ELSE DefaultImage

StopArgs == {"", "--clean", "--volumes", "--force", "--help"}

StartArgs == {"", "--clean"}

\* what .env gives the API keys: a value, nothing, or the template's text
KeySettings == {"configured", "empty", "placeholder"}

\* a server on which no image request is running
ServerIdle ==
    /\ stability_service = TRUE
    /\ stability_api_key = TRUE
    /\ dynapictures_service = TRUE
    /\ color_map = ColorMap
    /\ style_keywords = StyleKeywords
    /\ req = [r \in Req |-> NewRequest]

\* the machines a script can be started on
Runs(script, args, first) ==
    { s \in [script : {script}, arg : args, docker : BOOLEAN,
             compose_v1 : BOOLEAN, compose_v2 : BOOLEAN, daemon : BOOLEAN,
             env_file : BOOLEAN, env_docker : BOOLEAN, keys : KeySettings,
             volumes : {TRUE}, pc : {first}, mode : {None}, next : {0},
             cmds : {<< >>}, warnings : {{}}, status : {"running"}] :
        /\ s.compose_v2 => s.docker
        /\ s.daemon => s.docker
        /\ ~s.env_file => s.keys = "placeholder" }

\* docker-stop.sh reads neither .env nor the daemon's state
StopRuns ==
    { s \in Runs("docker-stop.sh", StopArgs, "compose") :
        s.daemon = s.docker /\ s.env_file /\ s.env_docker /\ s.keys = "configured" }

StartRuns == Runs("docker-start.sh", StartArgs, "docker")

\* `command -v docker-compose` succeeds, or `docker compose version` does
ComposeAvailable(s) == s.compose_v1 \/ s.compose_v2

\* the compose command the `if command -v docker-compose` blocks choose
Compose(s) == IF s.compose_v1 THEN "docker-compose" ELSE "docker compose"

\* a command line, and whether it is followed by `|| true`
Command(words, tolerant) == [words |-> words, tolerant |-> tolerant]

\* case "$1" in
StopMode(arg) ==
    CASE arg = "--clean" -> "clean"
      [] arg = "--volumes" -> "volumes"
      [] arg = "--force" -> "force"
      [] OTHER -> "normal"

\* a stop script whose normal mode removes the volumes as well
StopCommandsWiping(mode, dc) ==
    CASE mode = "clean" ->
            << Command(<<dc, "down", "--volumes", "--remove-orphans">>, FALSE),
               Command(<<"docker", "rmi">>, TRUE),
               Command(<<"docker", "system", "prune", "-f">>, FALSE) >>
      [] mode = "volumes" -> << Command(<<dc, "down", "--volumes">>, FALSE) >>
      [] mode = "force" ->
            << Command(<<dc, "kill">>, FALSE),
               Command(<<dc, "down", "--remove-orphans">>, FALSE) >>
      [] OTHER -> << Command(<<dc, "down", "--volumes">>, FALSE) >>

\* the commands of the four branches of the case statement
StopCommands(mode, dc) ==
    CASE mode = "clean" ->
            << Command(<<dc, "down", "--volumes", "--remove-orphans">>, FALSE),
               Command(<<"docker", "rmi">>, TRUE),
               Command(<<"docker", "system", "prune", "-f">>, FALSE) >>
      [] mode = "volumes" -> << Command(<<dc, "down", "--volumes">>, FALSE) >>
      [] mode = "force" ->
            << Command(<<dc, "kill">>, FALSE),
               Command(<<dc, "down", "--remove-orphans">>, FALSE) >>
      [] OTHER -> << Command(<<dc, "down">>, FALSE) >>

\* the optional cleaning, the build and the start of docker-start.sh
StartCommands(arg, dc) ==
    (IF arg = "--clean"
     THEN << Command(<<"docker-compose", "down", "--volumes", "--remove-orphans">>, TRUE),
             Command(<<"docker", "system", "prune", "-f">>, FALSE) >>
     ELSE << >>)
        \o << Command(<<dc, "build", "--no-cache">>, FALSE),
              Command(<<dc, "up", "-d">>, FALSE) >>

\* the commands the script runs once its checks have passed
Commands(s) ==
    IF s.script = "docker-stop.sh"
    THEN StopCommands(s.mode, Compose(s))
    ELSE StartCommands(s.arg, Compose(s))

\* the program a command line names is installed
Installed(s, words) ==
    CASE Head(words) = "docker-compose" -> s.compose_v1
      [] Head(words) = "docker compose" -> s.compose_v2
      [] OTHER -> s.docker

\* set -e: the script ends with the status of a command that fails
Abort(s, status) == [s EXCEPT !.pc = "exited", !.status = status]

\* docker-stop.sh, lines 36-39
StopCheckCompose(s) ==
    IF ~ComposeAvailable(s) THEN Abort(s, "exit 1") ELSE [s EXCEPT !.pc = "case"]

\* docker-stop.sh, line 42: the branch of the case statement is chosen
StopCase(s) ==
    [s EXCEPT !.mode = StopMode(s.arg), !.pc = "commands", !.next = 1]

\* one command of the list runs, and succeeds or fails
Run(s, ok) ==
    LET c == Commands(s)[s.next]
        ran == [s EXCEPT !.cmds = Append(@, c.words)]
    IN  IF ok \/ c.tolerant
        THEN [ran EXCEPT
                 !.volumes = IF ok /\ c.words[2] = "down" /\ \E i \in 1..Len(c.words) : c.words[i] = "--volumes"
                             THEN FALSE ELSE @,
                 !.next = @ + 1,
                 !.pc = IF s.next < Len(Commands(s)) THEN @
                        ELSE IF s.script = "docker-stop.sh" THEN "verify" ELSE "health"]
        ELSE Abort(ran, "exit n")

\* docker-stop.sh, lines 94-111
StopVerify(s, running) ==
    [s EXCEPT !.cmds = IF running > 0
                       THEN @ \o << <<"docker", "ps">>, <<"docker", "ps">> >>
                       ELSE Append(@, <<"docker", "ps">>),
              !.warnings = IF running > 0 THEN @ \cup {"containers"} ELSE @,
              !.pc = "done", !.status = "exit 0"]

\* docker-start.sh, lines 39-42
CheckDocker(s) ==
    IF ~s.docker THEN Abort(s, "exit 1") ELSE [s EXCEPT !.pc = "compose"]

\* docker-start.sh, lines 45-48
CheckCompose(s) ==
    IF ~ComposeAvailable(s) THEN Abort(s, "exit 1") ELSE [s EXCEPT !.pc = "daemon"]

\* docker-start.sh, lines 51-54
CheckDaemon(s) ==
    IF ~s.daemon THEN Abort(s, "exit 1") ELSE [s EXCEPT !.pc = "env"]

\* a start script that goes on without any .env file
CheckEnvLenient(s) ==
    IF ~s.env_file
    THEN IF s.env_docker
         THEN [s EXCEPT !.cmds = Append(@, <<"cp", ".env.docker", ".env">>),
                        !.env_file = TRUE, !.keys = "placeholder",
                        !.warnings = @ \cup {".env"}, !.pc = "keys"]
         ELSE [s EXCEPT !.warnings = @ \cup {".env"}, !.pc = "keys"]
    ELSE [s EXCEPT !.pc = "keys"]

\* docker-start.sh, lines 59-69
CheckEnv(s) ==
    IF ~s.env_file
    THEN IF s.env_docker
         THEN [s EXCEPT !.cmds = Append(@, <<"cp", ".env.docker", ".env">>),
                        !.env_file = TRUE, !.keys = "placeholder",
                        !.warnings = @ \cup {".env"}, !.pc = "keys"]
         ELSE Abort(s, "exit 1")
    ELSE [s EXCEPT !.pc = "keys"]

\* docker-start.sh, lines 74-86
CheckKeys(s) ==
    [s EXCEPT !.warnings =
                 @ \cup (IF s.keys = "placeholder" THEN {"SECRET_KEY"} ELSE {})
                   \cup (IF s.keys \in {"empty", "placeholder"}
                         THEN {"MISTRAL_API_KEY", "DYNAPICTURES_API_KEY"} ELSE {}),
              !.pc = "commands", !.next = 1]

\* docker-start.sh, lines 112-144
Health(s, backend, frontend) ==
    [s EXCEPT !.cmds = @ \o << <<"curl", ":5001/health">>, <<"curl", ":80">> >>,
              !.warnings = @ \cup (IF backend THEN {} ELSE {"backend"})
                             \cup (IF frontend THEN {} ELSE {"frontend"}),
              !.pc = "done", !.status = "exit 0"]

\* what a step of a script leaves alone
ScriptStep(script, pc) ==
    /\ sh.script = script
    /\ sh.pc = pc
    /\ UNCHANGED <<config, req, generator, history, viewer>>

StopChecksCompose ==
    ScriptStep("docker-stop.sh", "compose") /\ sh' = StopCheckCompose(sh)

StopEntersCase ==
    ScriptStep("docker-stop.sh", "case") /\ sh' = StopCase(sh)

StopVerifies(running) ==
    ScriptStep("docker-stop.sh", "verify") /\ sh' = StopVerify(sh, running)

StartChecksDocker ==
    ScriptStep("docker-start.sh", "docker") /\ sh' = CheckDocker(sh)

StartChecksCompose ==
    ScriptStep("docker-start.sh", "compose") /\ sh' = CheckCompose(sh)

StartChecksDaemon ==
    ScriptStep("docker-start.sh", "daemon") /\ sh' = CheckDaemon(sh)

StartChecksEnv ==
    ScriptStep("docker-start.sh", "env") /\ sh' = CheckEnv(sh)

StartChecksKeys ==
    ScriptStep("docker-start.sh", "keys") /\ sh' = CheckKeys(sh)

StartChecksHealth(backend, frontend) ==
    ScriptStep("docker-start.sh", "health") /\ sh' = Health(sh, backend, frontend)

\* the next command of either script runs; it can only succeed if its
\* program is installed
RunsCommand(ok) ==
    /\ ScriptStep(sh.script, "commands")
    /\ ok => Installed(sh, Commands(sh)[sh.next].words)
    /\ sh' = Run(sh, ok)

\* one of the two scripts is started on some machine
InitDocker ==
    /\ ServerIdle
    /\ GeneratorIdle
    /\ HistoryIdle
    /\ ViewerIdle
    /\ sh \in StartRuns \cup StopRuns

NextDocker ==
    \/ StopChecksCompose
    \/ StopEntersCase
    \/ \E running \in 0..1 : StopVerifies(running)
    \/ StartChecksDocker
    \/ StartChecksCompose
    \/ StartChecksDaemon
    \/ StartChecksEnv
    \/ StartChecksKeys
    \/ \E backend, frontend \in BOOLEAN : StartChecksHealth(backend, frontend)
    \/ \E ok \in BOOLEAN : RunsCommand(ok)

SpecDocker == InitDocker /\ [][NextDocker]_vars

(* ---------------------------------------------------------------------- *)
(* Properties of the scripts                                               *)
(* ---------------------------------------------------------------------- *)
StopModes == {"clean", "volumes", "force", "normal"}

IsPrefix(a, b) == Len(a) <= Len(b) /\ SubSeq(b, 1, Len(a)) = a

\* the command lines of a list of commands
Lines(list) == [i \in 1..Len(list) |-> list[i].words]

\* the command lines a script has run that carry the word
With(word) ==
    { i \in 1..Len(sh.cmds) : word \in Pieces(sh.cmds[i]) }

\* the commands docker-stop.sh has run for its case statement
Stopping == SelectSeq(sh.cmds, LAMBDA w : w # <<"docker", "ps">>)

\* C17: docker-stop.sh removes the volumes only when its argument is --clean
\* or --volumes: a `down` it runs carries --volumes exactly for these two
\* arguments, and with no argument, another word or --force the volumes are
\* kept; the commands it runs are those of exactly one of the four modes
\* (none at all when it finds no Docker Compose and stops with status 1).
C17_VolumesOnlyOnRequest ==
    sh.script = "docker-stop.sh" =>
        /\ \A i \in With("down") :
              ("--volumes" \in Pieces(sh.cmds[i])) <=> (sh.arg \in {"--clean", "--volumes"})
        /\ ~sh.volumes => sh.arg \in {"--clean", "--volumes"}
        /\ (sh.status = "exit 0" /\ sh.arg \in {"--clean", "--volumes"}) => ~sh.volumes
        /\ Stopping # << >> =>
              /\ Cardinality({ m \in StopModes :
                     IsPrefix(Stopping, Lines(StopCommands(m, Compose(sh)))) }) = 1
              /\ IsPrefix(Stopping, Lines(StopCommands(StopMode(sh.arg), Compose(sh))))
        /\ sh.status = "exit 0" =>
              Cardinality({ m \in StopModes :
                  Stopping = Lines(StopCommands(m, Compose(sh))) }) = 1
        /\ Stopping = << >> => sh.pc \in {"compose", "case", "commands", "exited"}

\* docker-stop.sh --force has ended: it killed the containers, ran a `down`
\* without --volumes, and the volumes are still there
C17_Witness ==
    /\ sh.script = "docker-stop.sh"
    /\ sh.arg = "--force"
    /\ sh.status = "exit 0"
    /\ With("kill") # {}
    /\ With("down") # {}
    /\ With("--volumes") = {}
    /\ sh.volumes

\* C18: docker-start.sh builds and starts the services only after its
\* checks: a build or an `up -d` has run only if docker is installed, a
\* compose command exists, the daemon answers and .env exists, by itself or
\* copied from .env.docker; a failed check ends the script with status 1
\* before any compose command; API keys that are missing or still the
\* template's only add warnings.
C18_ChecksBeforeStart ==
    sh.script = "docker-start.sh" =>
        LET started == With("build") \cup With("up") \cup With("down")
            failing == \/ ~sh.docker
                       \/ ~ComposeAvailable(sh)
                       \/ ~sh.daemon
                       \/ (~sh.env_file /\ ~sh.env_docker)
        IN  /\ started # {} =>
                  /\ sh.docker /\ ComposeAvailable(sh) /\ sh.daemon /\ sh.env_file
                  /\ With("cp") # {} => sh.env_docker
            /\ failing =>
                  /\ started = {}
                  /\ sh.pc \in {"docker", "compose", "daemon", "env", "exited"}
                  /\ sh.pc = "exited" => sh.status = "exit 1"
            /\ sh.status = "exit 1" => failing
            /\ (sh.pc \in {"commands", "health", "done"} /\ sh.keys # "configured") =>
                  /\ {"MISTRAL_API_KEY", "DYNAPICTURES_API_KEY"} \subseteq sh.warnings
                  /\ sh.status # "exit 1"
            /\ (sh.pc \in {"commands", "health", "done"} /\ sh.keys = "configured") =>
                  "MISTRAL_API_KEY" \notin sh.warnings

\* docker-start.sh has started the services from a .env it copied from the
\* template, whose API keys are placeholders: it warned and went on
C18_Witness ==
    /\ sh.script = "docker-start.sh"
    /\ With("cp") # {}
    /\ sh.keys = "placeholder"
    /\ "MISTRAL_API_KEY" \in sh.warnings
    /\ With("build") # {}
    /\ With("up") # {}
    /\ sh.status = "exit 0"

(* ---------------------------------------------------------------------- *)
(* CocktailGenerator                                                       *)
(* ---------------------------------------------------------------------- *)
\* the characters String.prototype.trim removes
Whitespace == {" ", "\t", "\n"}

RECURSIVE TrimStart(_)
TrimStart(text) ==
    IF text # << >> /\ Head(text) \in Whitespace THEN TrimStart(Tail(text)) ELSE text

RECURSIVE TrimEnd(_)
TrimEnd(text) ==
    IF text # << >> /\ text[Len(text)] \in Whitespace
    THEN TrimEnd(SubSeq(text, 1, Len(text) - 1))
    ELSE text

\* prompt.trim()
Trim(text) == TrimEnd(TrimStart(text))

\* what the user can have typed into the textarea
Texts ==
    { << >>, <<" ", "\t">>, <<"g", " ", "t">>, <<" ", "g", " ", "t", "\n">>,
      <<"g", "i", "n">> }

\* the messages setError is given in handleSubmit
ValidationError == "Veuillez saisir une description pour votre cocktail"

ConnectionError == "Impossible de se connecter au serveur."

GenerationError == "Erreur lors de la generation"

\* what the POST of handleSubmit can end with: a cocktail, a JSON body
\* without one, a status that is not OK, no connection
GenerateOutcomes == {"cocktail", "invalid", "not_ok", "failed_to_fetch"}

\* a handleSubmit that sends whatever the textarea holds
handleSubmitUnvalidated(g) ==
    [g EXCEPT !.isLoading = TRUE, !.error = "", !.generatedCocktail = << >>,
              !.pending = Append(@, Trim(g.prompt)),
              !.sent = @ \cup {Trim(g.prompt)},
              !.event = "submit"]

\* handleSubmit, up to its fetch
handleSubmit(g) ==
    IF Trim(g.prompt) = << >>
    THEN [g EXCEPT !.error = ValidationError, !.event = "submit"]
    ELSE [g EXCEPT !.isLoading = TRUE, !.error = "", !.generatedCocktail = << >>,
                   !.pending = Append(@, Trim(g.prompt)),
                   !.sent = @ \cup {Trim(g.prompt)},
                   !.event = "submit"]

\* a sequence without its i-th element
Without(seq, i) == SubSeq(seq, 1, i - 1) \o SubSeq(seq, i + 1, Len(seq))

\* handleSubmit, from the answer to its fetch on
AfterGenerate(g, i, outcome) ==
    LET done == [g EXCEPT !.pending = Without(@, i), !.isLoading = FALSE,
                          !.event = "answer"]
    IN  IF outcome = "cocktail"
        THEN [done EXCEPT !.generatedCocktail = <<g.pending[i]>>, !.prompt = << >>]
        ELSE [done EXCEPT !.error = IF outcome = "failed_to_fetch"
                                    THEN ConnectionError ELSE GenerationError]

\* handleNewCocktail
handleNewCocktail(g) ==
    [g EXCEPT !.generatedCocktail = << >>, !.error = "", !.event = "new"]

\* onChange of the textarea, which is disabled while isLoading
TypePrompt(text) ==
    /\ ~gen.isLoading
    /\ gen' = [gen EXCEPT !.prompt = text, !.event = "type"]
    /\ UNCHANGED <<config, req, scripts, history, viewer>>

\* onSubmit of the form
Submit ==
    /\ Trim(gen.prompt) # << >> => Len(gen.pending) < MaxInFlight
    /\ gen' = handleSubmit(gen)
    /\ UNCHANGED <<config, req, scripts, history, viewer>>

\* the fetch of a handleSubmit ends
GenerateAnswers(i, outcome) ==
    /\ i \in 1..Len(gen.pending)
    /\ gen' = AfterGenerate(gen, i, outcome)
    /\ UNCHANGED <<config, req, scripts, history, viewer>>

\* onBack of the cocktail that is shown
NewCocktail ==
    /\ gen.generatedCocktail # << >>
    /\ gen' = handleNewCocktail(gen)
    /\ UNCHANGED <<config, req, scripts, history, viewer>>

InitGenerator ==
    /\ ServerIdle
    /\ ScriptsIdle
    /\ HistoryIdle
    /\ ViewerIdle
    /\ gen = NewGenerator

NextGenerator ==
    \/ \E text \in Texts : TypePrompt(text)
    \/ Submit
    \/ \E i \in 1..MaxInFlight, outcome \in GenerateOutcomes : GenerateAnswers(i, outcome)
    \/ NewCocktail

SpecGenerator == InitGenerator /\ [][NextGenerator]_vars

(* ---------------------------------------------------------------------- *)
(* Properties of the generator                                             *)
(* ---------------------------------------------------------------------- *)
\* the text holds nothing but whitespace
Blank(text) == \A i \in 1..Len(text) : text[i] \in Whitespace

\* the text from its first to its last character that is not whitespace
Stripped(text) ==
    LET solid == { i \in 1..Len(text) : text[i] \notin Whitespace }
    IN  IF solid = {} THEN << >>
        ELSE SubSeq(text, CHOOSE i \in solid : \A j \in solid : i <= j,
                          CHOOSE i \in solid : \A j \in solid : j <= i)

\* C20: the generator never sends a generate request whose prompt is empty
\* or only whitespace: a submission of such a prompt sets the validation
\* error, sends nothing and leaves isLoading, the text of the prompt and
\* generatedCocktail as they are; every other submission sends the text
\* without its leading and trailing whitespace.
C20_NoBlankPromptSent ==
    /\ [](\A body \in gen.sent : body # << >> /\ ~Blank(body))
    /\ [](\A i \in 1..Len(gen.pending) : gen.pending[i] \in gen.sent)
    /\ [][(gen'.event = "submit" /\ gen' # gen) =>
             IF Blank(gen.prompt)
             THEN /\ gen'.error = ValidationError
                  /\ gen'.sent = gen.sent
                  /\ gen'.pending = gen.pending
                  /\ gen'.isLoading = gen.isLoading
                  /\ gen'.prompt = gen.prompt
                  /\ gen'.generatedCocktail = gen.generatedCocktail
             ELSE /\ gen'.pending = Append(gen.pending, Stripped(gen.prompt))
                  /\ gen'.sent = gen.sent \cup {Stripped(gen.prompt)}
                  /\ gen'.isLoading]_vars

\* a prompt of whitespace was submitted and refused while a cocktail made
\* from an earlier prompt, sent without the whitespace around it, is shown
C20_Witness ==
    /\ gen.event = "submit"
    /\ gen.prompt # << >>
    /\ Blank(gen.prompt)
    /\ gen.error = ValidationError
    /\ gen.sent = {<<"g", " ", "t">>}
    /\ gen.generatedCocktail = << <<"g", " ", "t">> >>
    /\ ~gen.isLoading
    /\ gen.pending = << >>

(* ---------------------------------------------------------------------- *)
(* CocktailHistory and the list endpoint it reads                          *)
(* ---------------------------------------------------------------------- *)
\* the numbers of cocktails the server can hold when the history is opened
InitialTotals == {0, 1, MaxCocktails}

RECURSIVE Descending(_)
\* the stored cocktails, the newest first
Descending(ids) ==
    IF ids = {}
    THEN << >>
    ELSE LET newest == CHOOSE i \in ids : \A j \in ids : j <= i
         IN  <<newest>> \o Descending(ids \ {newest})

\* GET /api/cocktails?page=&per_page= : the page and its pagination record
ListResponse(ids, page, per_page) ==
    LET all == Descending(ids)
        total == Len(all)
        pages == (total + per_page - 1) \div per_page
        first == (page - 1) * per_page + 1
        last == IF page * per_page < total THEN page * per_page ELSE total
    IN  [cocktails |-> IF first <= last THEN SubSeq(all, first, last) ELSE << >>,
         pagination |-> [page |-> page, per_page |-> per_page, total |-> total,
                         pages |-> pages, has_next |-> page < pages,
                         has_prev |-> page > 1]]

\* what a GET of the list can end with
FetchOutcomes == {"ok", "not_ok", "failed_to_fetch"}

\* what a DELETE can end with: success, a body without success, no body
DeleteOutcomes == {"success", "error", "failed"}

LoadingError == "Erreur lors du chargement"

DeletionError == "Erreur lors de la suppression"

DeletionConnectionError == "Erreur de connexion lors de la suppression"

\* fetchCocktails, up to its fetch
fetchCocktails(h, page) ==
    [h EXCEPT !.isLoading = TRUE, !.error = "",
              !.fetches = Append(@, [page |-> page, stale |-> FALSE]),
              !.sent = @ \cup {[page |-> page, per_page |-> h.perPage]}]

\* the requests still in flight once request i has succeeded: those that
\* started before it are from now on older than a request that succeeded
Overtaken(fetches, i) ==
    Without([k \in 1..Len(fetches) |->
                 IF k < i THEN [fetches[k] EXCEPT !.stale = TRUE] ELSE fetches[k]], i)

\* a fetchCocktails that empties the list when its request fails
AfterFetchForgetting(h, i, outcome, data) ==
    LET done == [h EXCEPT !.fetches = Without(@, i), !.isLoading = FALSE]
    IN  IF outcome = "ok"
        THEN [done EXCEPT !.cocktails = data.cocktails,
                          !.pagination = data.pagination,
                          !.currentPage = h.fetches[i].page,
                          !.fetches = IF h.fetches[i].stale
                                      THEN @ ELSE Overtaken(h.fetches, i),
                          !.latest = IF h.fetches[i].stale
                                     THEN @ ELSE h.fetches[i].page]
        ELSE [done EXCEPT !.cocktails = << >>,
                          !.error = IF outcome = "failed_to_fetch"
                                    THEN ConnectionError ELSE LoadingError]

\* fetchCocktails, from the answer to its fetch on; `latest` keeps the page
\* of the request that started last among those that succeeded
AfterFetch(h, i, outcome, data) ==
    LET done == [h EXCEPT !.fetches = Without(@, i), !.isLoading = FALSE]
    IN  IF outcome = "ok"
        THEN [done EXCEPT !.cocktails = data.cocktails,
                          !.pagination = data.pagination,
                          !.currentPage = h.fetches[i].page,
                          !.fetches = IF h.fetches[i].stale
                                      THEN @ ELSE Overtaken(h.fetches, i),
                          !.latest = IF h.fetches[i].stale
                                     THEN @ ELSE h.fetches[i].page]
        ELSE [done EXCEPT !.error = IF outcome = "failed_to_fetch"
                                    THEN ConnectionError ELSE LoadingError]

\* handlePageChange
handlePageChange(h, page) == fetchCocktails(h, page)

\* a deleteCocktail that does not wait for the answer to window.confirm
deleteCocktailUnasked(h, cocktailId, confirmed) ==
    [h EXCEPT !.deletingId = cocktailId,
              !.deletes = Append(@, [id |-> cocktailId,
                                     length |-> Len(h.cocktails),
                                     currentPage |-> h.currentPage])]

\* deleteCocktail, up to its fetch; it keeps the cocktails and the
\* currentPage of the render its button belongs to
deleteCocktail(h, cocktailId, confirmed) ==
    IF ~confirmed
    THEN h
    ELSE [h EXCEPT !.deletingId = cocktailId,
                   !.deletes = Append(@, [id |-> cocktailId,
                                          length |-> Len(h.cocktails),
                                          currentPage |-> h.currentPage])]

\* a deleteCocktail that reloads the page before, whatever the page
AfterDeleteUnguarded(h, i, outcome) ==
    LET d == h.deletes[i]
        done == [h EXCEPT !.deletes = Without(@, i), !.deletingId = 0]
    IN  IF outcome = "success"
        THEN LET filtered == [done EXCEPT !.cocktails = SelectSeq(@, LAMBDA c : c # d.id)]
             IN  IF d.length = 1
                 THEN fetchCocktails(filtered, d.currentPage - 1)
                 ELSE filtered
        ELSE [done EXCEPT !.error = IF outcome = "error"
                                    THEN DeletionError ELSE DeletionConnectionError]

\* deleteCocktail, from the answer to its fetch on
AfterDelete(h, i, outcome) ==
    LET d == h.deletes[i]
        done == [h EXCEPT !.deletes = Without(@, i), !.deletingId = 0]
    IN  IF outcome = "success"
        THEN LET filtered == [done EXCEPT !.cocktails = SelectSeq(@, LAMBDA c : c # d.id)]
             IN  IF d.length = 1 /\ d.currentPage > 1
                 THEN fetchCocktails(filtered, d.currentPage - 1)
                 ELSE filtered
        ELSE [done EXCEPT !.error = IF outcome = "error"
                                    THEN DeletionError ELSE DeletionConnectionError]

\* which of its four returns the component renders
View(h) ==
    IF h.isLoading /\ h.cocktails = << >> THEN "loading"
    ELSE IF h.error # "" THEN "error"
    ELSE IF h.cocktails = << >> THEN "empty"
    ELSE "list"

\* {pagination && pagination.pages > 1 && ...}
PaginationShown(h) ==
    View(h) = "list" /\ h.pagination # NoPagination /\ h.pagination.pages > 1

\* the cocktails of the list whose delete button is pressed
Targets(h) ==
    { c \in 1..MaxDeletions : \E k \in 1..Len(h.cocktails) : h.cocktails[k] = c }

\* another request, GET or DELETE, fits under the bound
Room(h) == Len(h.fetches) + Len(h.deletes) < MaxInFlight

\* useEffect on refreshTrigger: the mount, and every cocktail generated since
Refresh ==
    /\ Room(hist)
    /\ hist' = fetchCocktails(hist, 1)
    /\ UNCHANGED <<config, req, scripts, generator, db, viewer>>

\* the button of the error view
Retry ==
    /\ View(hist) = "error"
    /\ Room(hist)
    /\ hist' = fetchCocktails(hist, hist.currentPage)
    /\ UNCHANGED <<config, req, scripts, generator, db, viewer>>

\* a numbered button of the pagination
ClickPage(page) ==
    /\ PaginationShown(hist)
    /\ ~hist.isLoading
    /\ page \in 1..hist.pagination.pages
    /\ Room(hist)
    /\ hist' = handlePageChange(hist, page)
    /\ UNCHANGED <<config, req, scripts, generator, db, viewer>>

ClickPrevious ==
    /\ PaginationShown(hist)
    /\ ~(~hist.pagination.has_prev \/ hist.isLoading)
    /\ Room(hist)
    /\ hist' = handlePageChange(hist, hist.currentPage - 1)
    /\ UNCHANGED <<config, req, scripts, generator, db, viewer>>

ClickNext ==
    /\ PaginationShown(hist)
    /\ ~(~hist.pagination.has_next \/ hist.isLoading)
    /\ Room(hist)
    /\ hist' = handlePageChange(hist, hist.currentPage + 1)
    /\ UNCHANGED <<config, req, scripts, generator, db, viewer>>

\* the list request answers, with the cocktails stored at that moment
FetchAnswers(i, outcome) ==
    /\ i \in 1..Len(hist.fetches)
    /\ outcome = "ok" => hist.fetches[i].page >= 1
    /\ hist' = AfterFetch(hist, i, outcome,
                          ListResponse(db, hist.fetches[i].page, hist.perPage))
    /\ UNCHANGED <<config, req, scripts, generator, db, viewer>>

\* the delete button of a cocktail, and the answer to window.confirm
ClickDelete(cocktailId, confirmed) ==
    /\ View(hist) = "list"
    /\ cocktailId \in Targets(hist)
    /\ hist.deletingId # cocktailId
    /\ Room(hist)
    /\ hist' = deleteCocktail(hist, cocktailId, confirmed)
    /\ UNCHANGED <<config, req, scripts, generator, db, viewer>>

\* the DELETE answers; it succeeds only for a cocktail that is stored
DeleteAnswers(i, outcome) ==
    /\ i \in 1..Len(hist.deletes)
    /\ outcome = "success" => hist.deletes[i].id \in db
    /\ hist' = AfterDelete(hist, i, outcome)
    /\ db' = IF outcome = "success" THEN db \ {hist.deletes[i].id} ELSE db
    /\ UNCHANGED <<config, req, scripts, generator, viewer>>

InitHistory ==
    /\ ServerIdle
    /\ ScriptsIdle
    /\ GeneratorIdle
    /\ ViewerIdle
    /\ hist = NewHistory
    /\ \E total \in InitialTotals : db = 1..total

NextHistory ==
    \/ Refresh
    \/ Retry
    \/ \E page \in 1..MaxCocktails : ClickPage(page)
    \/ ClickPrevious
    \/ ClickNext
    \/ \E i \in 1..MaxInFlight, outcome \in FetchOutcomes : FetchAnswers(i, outcome)
    \/ \E id \in 1..MaxCocktails, confirmed \in BOOLEAN : ClickDelete(id, confirmed)
    \/ \E i \in 1..MaxInFlight, outcome \in DeleteOutcomes : DeleteAnswers(i, outcome)

SpecHistory == InitHistory /\ [][NextHistory]_vars

(* ---------------------------------------------------------------------- *)
(* Properties of the history                                               *)
(* ---------------------------------------------------------------------- *)
\* the largest per_page the list endpoint accepts
MaxPerPage == 50

\* C19: every list request the history sends respects the limits of the
\* endpoint, page >= 1 and per_page = 6 <= 50, after any sequence of loads,
\* refreshes, clicks on the pagination, retries and deletions, the server
\* reporting has_prev = false on page 1 and has_next = false on the last
\* page.
C19_ListRequestsWithinLimits ==
    /\ \A request \in hist.sent :
          /\ request.page >= 1
          /\ request.per_page = PerPage
          /\ request.per_page <= MaxPerPage
    /\ \A i \in 1..Len(hist.fetches) :
          [page |-> hist.fetches[i].page, per_page |-> PerPage] \in hist.sent

\* the cocktails of page 2 were deleted one after the other and the
\* history came back to page 1, the one page that is left: nothing was
\* requested but pages 1 and 2
C19_Witness ==
    /\ hist.sent = {[page |-> 1, per_page |-> PerPage], [page |-> 2, per_page |-> PerPage]}
    /\ db = (MaxDeletions + 1)..MaxCocktails
    /\ hist.currentPage = 1
    /\ Len(hist.cocktails) = MaxCocktails - MaxDeletions
    /\ hist.pagination.total = MaxCocktails - MaxDeletions
    /\ ~hist.pagination.has_prev
    /\ hist.deletes = << >>
    /\ hist.fetches = << >>

\* the list as the response `data` gives it
FromResponse(h, data) ==
    /\ h.cocktails = data.cocktails
    /\ h.pagination = data.pagination
    /\ h.currentPage = data.pagination.page

\* C22: the cocktails, the pagination and the currentPage of the history
\* are set together, from one successful list response, and between two
\* responses only a successful deletion touches them, by removing its
\* cocktail from the list; a list request that fails leaves all three as
\* they were and sets an error that is not empty, and every list request
\* that starts clears the error.
C22_ListFromOneResponse ==
    /\ [](hist.pagination # NoPagination =>
              /\ hist.currentPage = hist.pagination.page
              /\ Len(hist.cocktails) <= hist.pagination.per_page)
    /\ [][/\ Len(hist'.fetches) < Len(hist.fetches) =>
              \/ /\ hist'.cocktails = hist.cocktails
                 /\ hist'.pagination = hist.pagination
                 /\ hist'.currentPage = hist.currentPage
                 /\ hist'.error \in {ConnectionError, LoadingError}
              \/ /\ \E i \in 1..Len(hist.fetches) :
                        FromResponse(hist', ListResponse(db, hist.fetches[i].page,
                                                         hist.perPage))
                 /\ hist'.error = hist.error
          /\ Len(hist'.fetches) > Len(hist.fetches) => hist'.error = ""
          /\ Len(hist'.fetches) >= Len(hist.fetches) =>
                 /\ hist'.pagination = hist.pagination
                 /\ hist'.currentPage = hist.currentPage
                 /\ \E x \in (db \ db') \cup {0} :
                        hist'.cocktails = SelectSeq(hist.cocktails, LAMBDA c : c # x)]_vars

\* the request for page 1 failed while page 2 was displayed: page 2 is
\* still there, under the error
C22_Witness ==
    /\ hist.error = ConnectionError
    /\ hist.fetches = << >>
    /\ hist.sent = {[page |-> 1, per_page |-> PerPage], [page |-> 2, per_page |-> PerPage]}
    /\ hist.currentPage = 2
    /\ hist.pagination.page = 2
    /\ hist.cocktails = Descending(1..(MaxCocktails - PerPage))
    /\ View(hist) = "error"

\* C23: isLoading is true in every state in which a list request is in
\* flight, overlapping requests included, and false when none is.
C23_LoadingWhileFetching ==
    hist.isLoading <=> (hist.fetches # << >>)

\* C24: once no list request is in flight, the currentPage displayed is
\* the page of the request that started last among those that succeeded,
\* in whatever order the responses arrived.
C24_LatestStartedFetchWins ==
    (hist.fetches = << >> /\ hist.latest # 0) => hist.currentPage = hist.latest

\* C25: a successful deletion that empties the displayed list of a page
\* after the first requests the page before, also when another deletion
\* on that page was confirmed before its answer arrived.
C25_EmptyPageReloadsPrevious ==
    [][(/\ db' # db
        /\ hist.cocktails # << >>
        /\ hist'.cocktails = << >>
        /\ hist.currentPage > 1)
           => /\ Len(hist'.fetches) = Len(hist.fetches) + 1
              /\ hist'.fetches[Len(hist'.fetches)].page = hist.currentPage - 1]_vars

\* C26: a successful deletion of cocktail x removes the entry x from the
\* displayed list and nothing else, the other entries keeping their order;
\* a deletion that is not confirmed sends no request and changes nothing,
\* and a confirmed one changes nothing but deletingId until it is answered.
C26_DeletionRemovesOneEntry ==
    /\ [](\A id \in Targets(hist) : deleteCocktail(hist, id, FALSE) = hist)
    /\ [][/\ db' # db =>
              \E x \in db :
                  /\ db' = db \ {x}
                  /\ \E i \in 1..Len(hist.deletes) : hist.deletes[i].id = x
                  /\ hist'.cocktails = SelectSeq(hist.cocktails, LAMBDA c : c # x)
          /\ Len(hist'.deletes) > Len(hist.deletes) =>
                 /\ db' = db
                 /\ hist' = [hist EXCEPT !.deletingId = hist'.deletingId,
                                         !.deletes = hist'.deletes]
          /\ Len(hist'.deletes) = Len(hist.deletes) => db' = db]_vars

\* the older of the two cocktails of page 2 was deleted: the other one is
\* displayed alone, the page and its pagination being as they were
C26_Witness ==
    /\ db = 2..MaxCocktails
    /\ hist.currentPage = 2
    /\ hist.cocktails = <<2>>
    /\ hist.pagination.total = MaxCocktails
    /\ hist.deletes = << >>
    /\ hist.fetches = << >>
    /\ hist.error = ""

(* ---------------------------------------------------------------------- *)
(* CocktailDetail, in its two versions, and the generate-image endpoint    *)
(* ---------------------------------------------------------------------- *)
\* the component of components/CocktailDetail.jsx, which App.jsx imports,
\* and the component that takes a `source`
Standalone == "CocktailDetail.jsx"

Sourced == "CocktailHistory.jsx"

Components == {Standalone, Sourced}

\* where a cocktail is shown from
Sources == {"generator", "history"}

\* the cocktail under study: Mistral gave it an image_prompt, or none
DetailCocktails ==
    { MojitoTropical,
      [MojitoTropical EXCEPT !.image_prompt = "Cocktail tropical dans un verre hurricane"] }

\* the stored cocktail: just created by the generator, or an older one
Records ==
    [id : {1}, data : DetailCocktails, image_path : {None}, fresh : BOOLEAN]

\* what the POST of generateImage can end with
ImageOutcomes == {"image_url", "no_image_url", "not_ok", "failed_to_fetch"}

\* the component is mounted with the cocktail as the server returned it
Mount(component, source, rec) ==
    [NoDetail EXCEPT !.shown = TRUE, !.component = component, !.source = source,
                     !.cocktail = [id |-> rec.id,
                                   image_prompt |-> rec.data.image_prompt,
                                   image_path |-> rec.image_path]]

\* a useEffect that generates whenever there is a prompt
useEffectUnguarded(v) ==
    IF Truthy(v.cocktail.image_prompt) /\ ~Truthy(v.generatedImage)
    THEN "generate"
    ELSE "default"

\* the branch useEffect takes in the component with a `source`
useEffect(v) ==
    IF Truthy(v.cocktail.image_path)
    THEN "stored"
    ELSE IF v.source = "generator" /\ Truthy(v.cocktail.image_prompt)
                                   /\ ~Truthy(v.generatedImage)
         THEN "generate"
         ELSE "default"

\* the branch useEffect takes in components/CocktailDetail.jsx
useEffectStandalone(v) ==
    IF Truthy(v.cocktail.image_prompt) /\ ~Truthy(v.generatedImage)
    THEN "generate"
    ELSE IF ~Truthy(v.cocktail.image_prompt) THEN "default" ELSE "nothing"

\* generateImage goes past its first line
Requests(v) ==
    IF v.component = Sourced
    THEN v.cocktail.id # 0
    ELSE Truthy(v.cocktail.image_prompt)

\* generateImage, up to its fetch
generateImage(v, r) ==
    IF ~Requests(v)
    THEN v
    ELSE [v EXCEPT !.isGeneratingImage = TRUE, !.imageError = None, !.request = r]

\* the effect of the mount
Effect(v, r) ==
    LET branch == IF v.component = Sourced THEN useEffect(v) ELSE useEffectStandalone(v)
    IN  CASE branch = "stored" ->
                [v EXCEPT !.generatedImage = v.cocktail.image_path,
                          !.showDefaultImage = FALSE]
          [] branch = "generate" -> generateImage(v, r)
          [] branch = "default" -> [v EXCEPT !.showDefaultImage = TRUE]
          [] OTHER -> v

ImageError == "Erreur lors de la generation de l'image"

ImageUnavailable == "Generation d'images temporairement indisponible."

\* a generateImage whose spinner is stopped by a successful answer only
AfterGenerateImageNoFinally(v, outcome, image_url) ==
    IF outcome = "image_url" /\ Truthy(image_url)
    THEN [v EXCEPT !.isGeneratingImage = FALSE,
                   !.generatedImage = image_url, !.showDefaultImage = FALSE,
                   !.cocktail.image_path =
                        IF v.component = Sourced THEN image_url ELSE @]
    ELSE [v EXCEPT !.imageError = IF outcome \in {"image_url", "no_image_url"}
                                  THEN ImageUnavailable ELSE ImageError,
                   !.showDefaultImage = TRUE]

\* generateImage, from the answer to its fetch on
AfterGenerateImage(v, outcome, image_url) ==
    LET done == [v EXCEPT !.isGeneratingImage = FALSE]
    IN  IF outcome = "image_url" /\ Truthy(image_url)
        THEN [done EXCEPT !.generatedImage = image_url, !.showDefaultImage = FALSE,
                          !.cocktail.image_path =
                               IF v.component = Sourced THEN image_url ELSE @]
        ELSE [done EXCEPT !.imageError = IF outcome \in {"image_url", "no_image_url"}
                                         THEN ImageUnavailable ELSE ImageError,
                          !.showDefaultImage = TRUE]

\* {isGeneratingImage && ...}
SpinnerShown(v) == v.isGeneratingImage

\* {(generatedImage || showDefaultImage) && ...}
ImageShown(v) == Truthy(v.generatedImage) \/ v.showDefaultImage

\* src={generatedImage || '/default.webp'}
ImageSrc(v) == IF Truthy(v.generatedImage) THEN v.generatedImage ELSE "/default.webp"

\* the requests that were not posted yet
FreeSlots == { r \in Req : posts[r].state = "none" }

\* the request the next POST becomes
NextSlot == CHOOSE r \in FreeSlots : \A q \in FreeSlots : r <= q

\* the endpoint stores the reference of a generation that succeeded on the
\* cocktail the request names
Stored(rec, r, outcome) ==
    IF outcome = "image_url" /\ posts[r].component = Sourced /\ req[r].pc = "Succeeded"
    THEN [rec EXCEPT !.image_path = req[r].result]
    ELSE rec

\* the cocktail is shown: from the generator when it was just created, from
\* the history afterwards; the effect of the mount runs and, if it calls
\* generateImage, the server enters generate_image
OpenDetail(component, source) ==
    /\ ~detail.shown
    /\ (source = "generator") <=> record.fresh
    /\ LET v == Mount(component, source, record)
           sends == Effect(v, 0).isGeneratingImage
       IN  /\ sends => FreeSlots # {}
           /\ detail' = Effect(v, IF sends THEN NextSlot ELSE 0)
           /\ posts' = IF sends
                       THEN [posts EXCEPT ![NextSlot] =
                                [state |-> "pending", component |-> component,
                                 source |-> source,
                                 image_path |-> v.cocktail.image_path,
                                 outcome |-> None]]
                       ELSE posts
           /\ req' = IF sends
                     THEN [req EXCEPT ![NextSlot] =
                              generate_image([@ EXCEPT !.cocktail = record.data])]
                     ELSE req
    /\ record' = [record EXCEPT !.fresh = FALSE]
    /\ UNCHANGED <<config, scripts, generator, history>>

\* onBack: the component is unmounted
CloseDetail ==
    /\ detail.shown
    /\ detail' = NoDetail
    /\ UNCHANGED <<config, req, scripts, generator, history, record, posts>>

\* the POST of request r ends, once generate_image has returned; a
\* component that is no longer mounted ignores the answer
EndpointAnswers(r, outcome) ==
    /\ posts[r].state = "pending"
    /\ req[r].pc \in TerminalStates
    /\ posts' = [posts EXCEPT ![r].state = "answered", ![r].outcome = outcome]
    /\ record' = Stored(record, r, outcome)
    /\ detail' = IF detail.shown /\ detail.request = r
                 THEN AfterGenerateImage(detail, outcome, req[r].result)
                 ELSE detail
    /\ UNCHANGED <<config, req, scripts, generator, history>>

InitDetail ==
    /\ ServerIdle
    /\ ScriptsIdle
    /\ GeneratorIdle
    /\ HistoryIdle
    /\ detail = NoDetail
    /\ record \in Records
    /\ posts = [r \in Req |-> NoPost]

NextDetail ==
    \/ \E component \in Components, source \in Sources : OpenDetail(component, source)
    \/ CloseDetail
    \/ \E r \in Req : StabilityReturns(r, StabilityPlainAnswers)
    \/ \E r \in Req : DynaPicturesReturns(r, DynaPicturesPlainAnswers)
    \/ \E r \in Req, outcome \in ImageOutcomes : EndpointAnswers(r, outcome)

SpecDetail == InitDetail /\ [][NextDetail]_vars

\* every call of a service answers, and so does every POST
FairSpecDetail ==
    /\ SpecDetail
    /\ \A r \in Req :
          /\ WF_vars(StabilityReturns(r, StabilityPlainAnswers))
          /\ WF_vars(DynaPicturesReturns(r, DynaPicturesPlainAnswers))
          /\ WF_vars(\E outcome \in ImageOutcomes : EndpointAnswers(r, outcome))

(* ---------------------------------------------------------------------- *)
(* Properties of the detail view                                           *)
(* ---------------------------------------------------------------------- *)
\* the references a service can have generated
Generated == StabilityRefs \cup DynaPicturesRefs

\* the generated references that the image_path of the cocktail holds, on
\* the server or in the browser
Attached == {record.image_path, detail.cocktail.image_path} \cap Generated

\* C12: when every service has failed for a request, the image_path of the
\* cocktail is unset after the request: the default image is returned and
\* shown but attached neither to the stored cocktail nor to the cocktail of
\* the view; what image_path holds is the reference of a generation that
\* succeeded.
C12_DefaultNeverAttached ==
    /\ record.image_path # DefaultImage
    /\ detail.cocktail.image_path # DefaultImage
    /\ \A r \in Req :
          (/\ posts[r].state = "answered"
           /\ req[r].pc = "ExhaustedUsingDefault"
           /\ detail.shown
           /\ detail.request = r)
              => ~Truthy(detail.cocktail.image_path)
    /\ Truthy(record.image_path) => record.image_path \in Generated
    /\ Truthy(detail.cocktail.image_path) => detail.cocktail.image_path \in Generated

\* C13: over any sequence of openings of the detail view and of
\* generation requests for a cocktail, its image_path holds at most one
\* generated reference, and a generated reference it holds is never
\* replaced by another one.
C13_AtMostOneReference ==
    /\ [](Cardinality(Attached) <= 1)
    /\ [][/\ Attached # {} => Attached' = Attached
          /\ record.image_path \in Generated => record'.image_path = record.image_path]_vars

\* the cocktail was given its image from the generator and is opened again
\* from the history: the stored image is shown and nothing is requested
C13_Witness ==
    /\ record.image_path \in Generated
    /\ detail.shown
    /\ detail.component = Sourced
    /\ detail.source = "history"
    /\ detail.generatedImage = record.image_path
    /\ detail.request = 0
    /\ posts[1].state = "answered"
    /\ posts[1].source = "generator"
    /\ \A r \in Req \ {1} : posts[r].state = "none"

\* C15: once the detail view has started a generation, whatever its POST
\* ends with, isGeneratingImage comes back to false and an image is shown:
\* the generated one after an answer that carries an image_url, the default
\* image otherwise; the view never shows neither an image nor the spinner.
C15_SpinnerEndsWithAnImage ==
    /\ [](detail.shown => (SpinnerShown(detail) \/ ImageShown(detail)))
    /\ [][\A r \in Req :
             (/\ posts[r].state = "pending"
              /\ posts'[r].state = "answered"
              /\ detail.shown
              /\ detail.request = r)
                => /\ detail.isGeneratingImage
                   /\ ~detail'.isGeneratingImage
                   /\ ImageShown(detail')
                   /\ ImageSrc(detail') = IF posts'[r].outcome = "image_url"
                                          THEN req[r].result
                                          ELSE DefaultImage]_vars
    /\ (detail.shown /\ detail.isGeneratingImage)
          ~> (~detail.shown \/ (~detail.isGeneratingImage /\ ImageShown(detail)))

\* a generation that the view started ended with a status that is not OK:
\* the spinner is gone and the default image is shown with an error
C15_Witness ==
    \E r \in Req :
        /\ detail.shown
        /\ detail.request = r
        /\ posts[r].state = "answered"
        /\ posts[r].outcome = "not_ok"
        /\ ~detail.isGeneratingImage
        /\ ImageShown(detail)
        /\ ImageSrc(detail) = DefaultImage
        /\ detail.imageError = ImageError

\* C16: a generation is requested only when the cocktail is shown from the
\* generator: no request is ever posted for a view opened from the history,
\* which shows the stored image_path if there is one and the default image
\* otherwise, and none for a cocktail that has an image_path.
C16_GenerationOnlyFromGenerator ==
    /\ \A r \in Req :
          posts[r].state # "none" =>
              /\ posts[r].source = "generator"
              /\ ~Truthy(posts[r].image_path)
    /\ (detail.shown /\ detail.source = "history") =>
          /\ ~detail.isGeneratingImage
          /\ ImageShown(detail)
          /\ ImageSrc(detail) = IF Truthy(detail.cocktail.image_path)
                                THEN detail.cocktail.image_path
                                ELSE DefaultImage

====
